---- MODULE Spec2Model ----
(***************************************************************************)
(* inject-body (src/index.js): main() wraps setHeader, write and end of an *)
(* http.ServerResponse so that a payload is inserted after the first       *)
(* <body> opening tag of an HTML response, with Content-Length and ETag    *)
(* adjusted.  One action per caller-visible operation: setting a header on *)
(* the raw response before attaching, attaching, and the three wrapped     *)
(* operations.  Buffers are sequences of one-character strings.            *)
(***************************************************************************)
EXTENDS Integers, Sequences, FiniteSets, TLC

VARIABLES
    attached,     \* main() has run on the response
    etag,         \* main's third argument, index.js:16
    headers,      \* the response's own header store, by lower-case name
    isHtml,       \* index.js:37
    willEnd,      \* index.js:35
    parserAlive,  \* index.js:38, FALSE once onend has set parser = null
    tok,          \* the tokenizer inside the Parser
    buffers,      \* index.js:34
    len,          \* index.js:36
    downstream,   \* calls made on the original write / end, in order
    errors,       \* res.emit('error', ...) calls, in order
    thrown,       \* an exception escaped a wrapped operation
    sent,         \* history: bytes of the caller's accepted write/end calls
    declared,     \* history: last scalar value the caller gave each header
    injections,   \* history: number of times onopentag spliced the payload
    bodyHtml,     \* history: isHtml at the first accepted write/end call
    acked,        \* write callbacks the wrapper itself has invoked
    nWrites       \* wrapped write calls made so far

vars == <<attached, etag, headers, isHtml, willEnd, parserAlive, tok, buffers, len,
          downstream, errors, thrown, sent, declared, injections,
          bodyHtml, acked, nWrites>>

----------------------------------------------------------------------------
(* Bounds of the model *)

\* Write calls per response.
MaxWrites == 2
\* Calls per response that the wrappers answer with an error event.
MaxErrors == 1

----------------------------------------------------------------------------
(* Bytes *)

RECURSIVE Flatten(_)
Flatten(chunks) ==
    IF chunks = <<>> THEN <<>> ELSE Head(chunks) \o Flatten(Tail(chunks))

ZeroByte == "\\0"

RECURSIVE Zeros(_)
Zeros(n) == IF n <= 0 THEN <<>> ELSE <<ZeroByte>> \o Zeros(n - 1)

\* Buffer.concat(list, totalLength): the result has exactly totalLength
\* bytes, truncated when the list is longer and zero-filled when shorter.
BufferConcat(list, totalLength) ==
    LET all == Flatten(list)
    IN  IF Len(all) >= totalLength
        THEN SubSeq(all, 1, totalLength)
        ELSE all \o Zeros(totalLength - Len(all))

\* The payload given to injectBody (index.js:16, injectChunk).
InjectChunk == <<"!", "?">>

\* md5Base64(injectChunk), index.js:12-14: an opaque digest string.
Md5Base64(buf) == IF buf = InjectChunk THEN "+md5(!?)" ELSE "+md5(other)"

----------------------------------------------------------------------------
(* The htmlparser2 Parser constructed at index.js:38: its tokenizer walks  *)
(* the characters it is fed, one state per kind of position, and calls     *)
(* onopentag when the '>' of an opening tag is read; endIndex is then the  *)
(* tokenizer's absolute index of that '>'.                                 *)

IsWhitespace(c) == c = " "

ToLowerChar(c) ==
    CASE c = "B" -> "b"
      [] c = "O" -> "o"
      [] c = "D" -> "d"
      [] c = "Y" -> "y"
      [] OTHER -> c

RECURSIVE ToLowerSeq(_)
ToLowerSeq(s) ==
    IF s = <<>> THEN <<>> ELSE <<ToLowerChar(Head(s))>> \o ToLowerSeq(Tail(s))

\* The tag name onopentag compares with, index.js:44.
BodyTag == <<"b", "o", "d", "y">>

NoTag == <<>>

\* A new (or reset) tokenizer.
TokInit == [state |-> "Text", index |-> 0, section |-> <<>>, tagname |-> <<>>]

\* onopentagend: onopentag(tagname) is called, then the tag name is cleared.
OpenTagEnd(t) ==
    [tok |-> [t EXCEPT !.state = "Text", !.tagname = <<>>], opened |-> t.tagname]

Quiet(t) == [tok |-> t, opened |-> NoTag]

StateBeforeAttributeName(t, c) ==
    IF c = ">" THEN OpenTagEnd(t)
    ELSE IF c = "/" THEN Quiet([t EXCEPT !.state = "InSelfClosingTag"])
    ELSE IF ~IsWhitespace(c) THEN Quiet([t EXCEPT !.state = "InAttributeName"])
    ELSE Quiet(t)

\* onopentagname lower-cases the name; the character is read again in the
\* next state.
StateInTagName(t, c) ==
    IF c = "/" \/ c = ">" \/ IsWhitespace(c)
    THEN StateBeforeAttributeName(
            [t EXCEPT !.state = "BeforeAttributeName",
                      !.tagname = ToLowerSeq(t.section),
                      !.section = <<>>], c)
    ELSE Quiet([t EXCEPT !.section = Append(t.section, c)])

StateBeforeTagName(t, c) ==
    IF c = "/" THEN Quiet([t EXCEPT !.state = "BeforeClosingTagName"])
    ELSE IF c = "<" THEN Quiet(t)
    ELSE IF c = ">" \/ IsWhitespace(c) THEN Quiet([t EXCEPT !.state = "Text"])
    ELSE Quiet([t EXCEPT !.state = "InTagName", !.section = <<c>>])

StateInSelfClosingTag(t, c) ==
    IF c = ">" THEN OpenTagEnd(t)
    ELSE IF ~IsWhitespace(c)
    THEN StateBeforeAttributeName([t EXCEPT !.state = "BeforeAttributeName"], c)
    ELSE Quiet(t)

StateAfterAttributeName(t, c) ==
    IF c = "/" \/ c = ">"
    THEN StateBeforeAttributeName([t EXCEPT !.state = "BeforeAttributeName"], c)
    ELSE IF ~IsWhitespace(c) THEN Quiet([t EXCEPT !.state = "InAttributeName"])
    ELSE Quiet(t)

StateInAttributeName(t, c) ==
    IF c = "/" \/ c = ">" \/ IsWhitespace(c)
    THEN StateAfterAttributeName([t EXCEPT !.state = "AfterAttributeName"], c)
    ELSE Quiet(t)

StateBeforeClosingTagName(t, c) ==
    IF IsWhitespace(c) THEN Quiet(t)
    ELSE IF c = ">" THEN Quiet([t EXCEPT !.state = "Text"])
    ELSE Quiet([t EXCEPT !.state = "InClosingTagName"])

StateAfterClosingTagName(t, c) ==
    IF c = ">" THEN Quiet([t EXCEPT !.state = "Text"]) ELSE Quiet(t)

StateInClosingTagName(t, c) ==
    IF c = ">" \/ IsWhitespace(c)
    THEN StateAfterClosingTagName([t EXCEPT !.state = "AfterClosingTagName"], c)
    ELSE Quiet(t)

StateText(t, c) ==
    IF c = "<" THEN Quiet([t EXCEPT !.state = "BeforeTagName"]) ELSE Quiet(t)

\* One character through the tokenizer.
TokStep(t, c) ==
    CASE t.state = "Text" -> StateText(t, c)
      [] t.state = "BeforeTagName" -> StateBeforeTagName(t, c)
      [] t.state = "InTagName" -> StateInTagName(t, c)
      [] t.state = "BeforeAttributeName" -> StateBeforeAttributeName(t, c)
      [] t.state = "InAttributeName" -> StateInAttributeName(t, c)
      [] t.state = "AfterAttributeName" -> StateAfterAttributeName(t, c)
      [] t.state = "InSelfClosingTag" -> StateInSelfClosingTag(t, c)
      [] t.state = "BeforeClosingTagName" -> StateBeforeClosingTagName(t, c)
      [] t.state = "InClosingTagName" -> StateInClosingTagName(t, c)
      [] t.state = "AfterClosingTagName" -> StateAfterClosingTagName(t, c)

\* parser.write(data) as seen by onopentag (index.js:39-65): the characters
\* are read in order until the first opening tag named body.  onopentag ends
\* the parser there, and its first line ignores every tag read after that.
RECURSIVE Feed(_, _)
Feed(t, data) ==
    IF data = <<>>
    THEN [tok |-> t, found |-> FALSE, endIndex |-> 0]
    ELSE LET r == TokStep(t, Head(data))
             next == [r.tok EXCEPT !.index = t.index + 1]
         IN  IF r.opened = BodyTag
             THEN [tok |-> next, found |-> TRUE, endIndex |-> t.index]
             ELSE Feed(next, Tail(data))

----------------------------------------------------------------------------
(* Headers *)

HeaderKeys == {"content-type", "content-length", "etag", "x-other"}

\* The headers whose value as the caller gave it is remembered.
DeclaredKeys == {"content-length", "etag"}
Declare(d, key, value) == IF key \in DeclaredKeys THEN [d EXCEPT ![key] = value] ELSE d

Absent == [present |-> FALSE, isArray |-> FALSE, s |-> ""]
Scalar(s) == [present |-> TRUE, isArray |-> FALSE, s |-> s]
List(s) == [present |-> TRUE, isArray |-> TRUE, s |-> s]

\* String.prototype.toLowerCase on the header names the caller uses.
ToLowerCase(name) ==
    CASE name = "Content-Type" -> "content-type"
      [] name = "CONTENT-LENGTH" -> "content-length"
      [] name = "ETag" -> "etag"
      [] name = "X-Other" -> "x-other"
      [] OTHER -> name

\* Number(value) followed by Number.isInteger, index.js:72-74.
NumberOf(s) ==
    CASE s = "0" -> [isInteger |-> TRUE, n |-> 0]
      [] s = "7" -> [isInteger |-> TRUE, n |-> 7]
      [] s = "-1" -> [isInteger |-> TRUE, n |-> -1]
      [] OTHER -> [isInteger |-> FALSE, n |-> 0]

\* parse(headerValue).type of the content-type package, index.js:116.
ParseType(s) ==
    CASE s = "text/html" -> "text/html"
      [] s = "text/html; charset=utf-8" -> "text/html"
      [] OTHER -> s

\* The values a caller gives the headers.
ContentTypes == {"text/html", "text/html; charset=utf-8", "text/plain"}
ContentLengths == {"7", "-1"}
ETags == {"W/abc"}

\* (name, value) pairs of setHeader calls on the raw response, before
\* injectBody is called.
RawInputs ==
    ({"content-type"} \X {Scalar(v) : v \in ContentTypes})
    \cup ({"content-length"} \X {Scalar(v) : v \in ContentLengths})
    \cup ({"etag"} \X {Scalar(v) : v \in ETags})

\* (name, value) pairs of wrapped setHeader calls.
SetInputs ==
    ({"Content-Type"} \X {Scalar(v) : v \in ContentTypes})
    \cup ({"CONTENT-LENGTH"} \X ({Scalar(v) : v \in ContentLengths} \cup {List("7,7")}))
    \cup ({"ETag"} \X {Scalar(v) : v \in ETags})
    \cup {<<"X-Other", Scalar("1")>>}

\* A setHeader that does not tell a list from a single value.
IsArrayNever(headerValue) == FALSE

\* Array.isArray(headerValue), index.js:101.
IsArray(headerValue) == headerValue.isArray

\* The original setHeader (index.js:33) on the response's header store.
SetHeaderOrig(h, name, value) == [h EXCEPT ![ToLowerCase(name)] = value]

\* `etag || md5Base64(injectChunk)`, index.js:97 and 114; etag is the third
\* argument of main: absent for injectBody (index.js:208), the digest computed
\* once for a function made by InjectBody (index.js:237).
NoEtagArg == ""
EtagArg(mode) == IF mode = "class" THEN Md5Base64(InjectChunk) ELSE NoEtagArg
EtagSuffix(etagArg) ==
    IF etagArg # NoEtagArg THEN etagArg ELSE Md5Base64(InjectChunk)

ContentLengthError(v) == [code |-> "RFC7230", arg |-> v]
EncodingError(enc) == [code |-> "ERR_INVALID_HTML_ENCODING", arg |-> enc]

\* adjustContentLength without the return of index.js:80.
AdjustContentLengthNoReturn(h, errs, html, v) ==
    LET num == NumberOf(v)
        bad == ~num.isInteger \/ num.n < 0
    IN  [headers |-> IF html
                     THEN SetHeaderOrig(h, "content-length",
                              Scalar(ToString(num.n + Len(InjectChunk))))
                     ELSE h,
         errors |-> IF bad THEN Append(errs, ContentLengthError(v)) ELSE errs]

\* adjustContentLength, index.js:71-86.  html is the value of isHtml when it
\* runs; the result is the header store and the errors emitted.
AdjustContentLength(h, errs, html, v) ==
    LET num == NumberOf(v)
    IN  IF ~num.isInteger \/ num.n < 0
        THEN [headers |-> h, errors |-> Append(errs, ContentLengthError(v))]
        ELSE IF html
        THEN [headers |-> SetHeaderOrig(h, "content-length",
                              Scalar(ToString(num.n + Len(InjectChunk)))),
              errors |-> errs]
        ELSE [headers |-> h, errors |-> errs]

----------------------------------------------------------------------------
(* The body *)

\* The chunks a caller writes: "<" and "BODY>", which together are an opening
\* body tag in upper case and apart are text, and "</body><body a><body>": a
\* closing body tag, an opening body tag with an attribute, and a second
\* opening body tag.
Chunks ==
    { <<"<">>,
      <<"B", "O", "D", "Y", ">">>,
      <<"<", "/", "b", "o", "d", "y", ">",
        "<", "b", "o", "d", "y", " ", "a", ">",
        "<", "b", "o", "d", "y", ">">> }

\* Buffer.alloc(0), index.js:185 and 189.
Empty == <<>>

\* The encoding argument of write and end; NoEncoding when the call gives
\* none (the position is empty or holds the callback).
NoEncoding == "none"
Encodings == {NoEncoding, "UTF-8", "latin1"}

\* A test that takes every encoding name for UTF-8.
IsUtf8Any(enc) == TRUE

\* /utf-?8/ui.test(encoding), index.js:132.
IsUtf8(enc) == enc \in {"utf8", "utf-8", "UTF8", "UTF-8"}

\* The test of index.js:132.
EncodingRejected(html, enc) == html /\ enc # NoEncoding /\ ~IsUtf8(enc)

Min(a, b) == IF a < b THEN a ELSE b

\* String.prototype.slice(from, to) with 0 <= from.
Slice(str, from, to) == SubSeq(str, from + 1, Min(to, Len(str)))

\* The splice of onopentag, index.js:53-62: the new buffers and len.
Splice(bufs, l, endIndex) ==
    LET insertionIndex == endIndex + 1
        html == BufferConcat(bufs, l)
    IN  [buffers |-> << Slice(html, 0, insertionIndex) \o InjectChunk
                        \o Slice(html, insertionIndex, Len(html)) >>,
         len |-> l + Len(InjectChunk)]

\* A call of the original write that leaves the callback out.
WriteOrigNoCallback(data, cb) == [op |-> "write", data |-> data, cb |-> FALSE]

\* Calls of the original write and end: the data and whether the caller's
\* callback is passed along in restArgs.
WriteOrig(data, cb) == [op |-> "write", data |-> data, cb |-> cb]
EndOrig(data, cb) == [op |-> "end", data |-> data, cb |-> cb]

\* The last lines of res.write when willEnd holds, index.js:168-176.
Finalize(st, cb) ==
    [st EXCEPT !.downstream =
        Append(st.downstream,
               EndOrig(IF Len(st.buffers) = 1
                       THEN st.buffers[1]
                       ELSE BufferConcat(st.buffers, st.len), cb))]

\* res.write(data, enc, cb), index.js:129-179, with willEnd = we: the values
\* of the closure's variables and the calls made when it returns.
WriteCall(data, enc, cb, we) ==
    LET cur == [parserAlive |-> parserAlive, tok |-> tok, buffers |-> buffers,
                len |-> len, downstream |-> downstream, errors |-> errors,
                injections |-> injections, sent |-> sent, acked |-> acked]
        acc == [cur EXCEPT !.sent = sent \o data]
    IN  IF EncodingRejected(isHtml, enc)
        THEN [cur EXCEPT !.errors = Append(errors, EncodingError(enc))]
        ELSE IF parserAlive
        THEN LET pushed == Append(buffers, data)
                 len1 == len + Len(data)
                 \* parseComplete resets the parser before reading data
                 r == Feed(IF we THEN TokInit ELSE tok, data)
                 spliced == r.found /\ isHtml
                 after == IF spliced
                          THEN Splice(pushed, len1, r.endIndex)
                          ELSE [buffers |-> pushed, len |-> len1]
                 fed == [acc EXCEPT
                           !.parserAlive = ~we /\ ~r.found,
                           !.tok = IF we \/ r.found THEN TokInit ELSE r.tok,
                           !.buffers = after.buffers,
                           !.len = after.len,
                           !.injections = injections + (IF spliced THEN 1 ELSE 0)]
             IN  IF we
                 THEN Finalize(fed, cb)
                 ELSE [fed EXCEPT !.acked = acked + (IF cb THEN 1 ELSE 0)]
        ELSE IF ~we /\ buffers # <<>>
        THEN [acc EXCEPT
                !.downstream =
                    Append(downstream,
                           WriteOrig(BufferConcat(Append(buffers, data),
                                                  len + Len(data)), cb)),
                !.buffers = <<>>]
        ELSE IF we
        THEN Finalize([acc EXCEPT !.buffers = Append(buffers, data)], cb)
        ELSE [acc EXCEPT !.downstream = Append(downstream, WriteOrig(data, cb))]

----------------------------------------------------------------------------
(* The wrapped setHeader *)

\* res.setHeader(name, value), index.js:100-124: the closure's variables and
\* the header store when it returns, or thrown when parser.end() is reached
\* with parser = null.
SetHeaderCall(name, value) ==
    LET cur == [headers |-> headers, errors |-> errors, isHtml |-> isHtml,
                parserAlive |-> parserAlive, tok |-> tok, thrown |-> FALSE]
        lowerCaseHeaderName == ToLowerCase(name)
    IN  IF IsArray(value)
        THEN [cur EXCEPT !.headers = SetHeaderOrig(headers, name, value)]
        ELSE IF lowerCaseHeaderName = "content-length"
        THEN LET a == AdjustContentLength(headers, errors, isHtml, value.s)
             IN  [cur EXCEPT !.headers = a.headers, !.errors = a.errors]
        ELSE IF isHtml /\ lowerCaseHeaderName = "etag"
        THEN [cur EXCEPT !.headers =
                 SetHeaderOrig(headers, name,
                               Scalar(value.s \o EtagSuffix(etag)))]
        ELSE IF lowerCaseHeaderName = "content-type"
        THEN IF ParseType(value.s) = "text/html"
             THEN [cur EXCEPT !.isHtml = TRUE,
                              !.headers = SetHeaderOrig(headers, name, value)]
             ELSE IF parserAlive
             THEN [cur EXCEPT !.parserAlive = FALSE, !.tok = TokInit,
                              !.headers = SetHeaderOrig(headers, name, value)]
             ELSE [cur EXCEPT !.thrown = TRUE]
        ELSE [cur EXCEPT !.headers = SetHeaderOrig(headers, name, value)]

----------------------------------------------------------------------------
(* The state machine *)

Ended == \E i \in 1..Len(downstream) : downstream[i].op = "end"

Init ==
    /\ attached = FALSE
    /\ etag = NoEtagArg
    /\ headers = [k \in HeaderKeys |-> Absent]
    /\ isHtml = FALSE
    /\ willEnd = FALSE
    /\ parserAlive = FALSE
    /\ tok = TokInit
    /\ buffers = <<>>
    /\ len = 0
    /\ downstream = <<>>
    /\ errors = <<>>
    /\ thrown = FALSE
    /\ sent = <<>>
    /\ declared = [k \in DeclaredKeys |-> Absent]
    /\ injections = 0
    /\ bodyHtml = "unset"
    /\ acked = 0
    /\ nWrites = 0

\* The caller sets a header on the response before calling injectBody.
RawSetHeader(name, value) ==
    /\ ~attached
    /\ ~headers[name].present
    /\ headers' = SetHeaderOrig(headers, name, value)
    /\ declared' = Declare(declared, name, value)
    /\ UNCHANGED <<attached, etag, isHtml, willEnd, parserAlive, tok, buffers,
                   len, downstream, errors, thrown, sent, injections,
                   bodyHtml, acked, nWrites>>

\* main(res, injectChunk, etag), index.js:16-191, called through injectBody
\* (mode "function") or through a function made by InjectBody (mode "class").
Attach(mode) ==
    /\ ~attached
    /\ LET ct == headers["content-type"]
           html == ct.present /\ ct = Scalar("text/html")
           a == IF ct.present /\ headers["content-length"].present
                THEN AdjustContentLength(headers, errors, html,
                                         headers["content-length"].s)
                ELSE [headers |-> headers, errors |-> errors]
       IN  /\ isHtml' = html
           /\ errors' = a.errors
           /\ headers' =
                IF html /\ a.headers["etag"].present
                THEN SetHeaderOrig(a.headers, "etag",
                        Scalar(a.headers["etag"].s \o EtagSuffix(EtagArg(mode))))
                ELSE a.headers
    /\ attached' = TRUE
    /\ etag' = EtagArg(mode)
    /\ parserAlive' = TRUE
    /\ tok' = TokInit
    /\ UNCHANGED <<willEnd, buffers, len, downstream, thrown, sent, declared,
                   injections, bodyHtml, acked, nWrites>>

SetHeader(name, value) ==
    /\ attached /\ ~thrown /\ downstream = <<>>
    /\ LET r == SetHeaderCall(name, value)
       IN  /\ headers' = r.headers
           /\ errors' = r.errors
           /\ isHtml' = r.isHtml
           /\ parserAlive' = r.parserAlive
           /\ tok' = r.tok
           /\ thrown' = r.thrown
    /\ Len(errors') <= MaxErrors
    /\ declared' = Declare(declared, ToLowerCase(name), value)
    /\ UNCHANGED <<attached, etag, willEnd, buffers, len, downstream, sent,
                   injections, bodyHtml, acked, nWrites>>

Apply(r) ==
    /\ parserAlive' = r.parserAlive
    /\ tok' = r.tok
    /\ buffers' = r.buffers
    /\ len' = r.len
    /\ downstream' = r.downstream
    /\ errors' = r.errors
    /\ injections' = r.injections
    /\ sent' = r.sent
    /\ acked' = r.acked
    /\ bodyHtml' = IF bodyHtml = "unset" /\ r.errors = errors
                   THEN (IF isHtml THEN "html" ELSE "other")
                   ELSE bodyHtml

Write(data, enc, cb) ==
    /\ attached /\ ~thrown /\ ~Ended
    /\ nWrites < MaxWrites
    /\ Apply(WriteCall(data, enc, cb, willEnd))
    /\ Len(errors') <= MaxErrors
    /\ nWrites' = nWrites + 1
    /\ UNCHANGED <<attached, etag, headers, isHtml, willEnd, thrown, declared>>

\* res.end(data, enc, cb), index.js:181-190; end() and end(cb) are the calls
\* with data = Empty.
End(data, enc, cb) ==
    /\ attached /\ ~thrown /\ ~Ended
    /\ willEnd' = TRUE
    /\ Apply(WriteCall(data, enc, cb, TRUE))
    /\ Len(errors') <= MaxErrors
    /\ UNCHANGED <<attached, etag, headers, isHtml, thrown, declared,
                   nWrites>>

\* The calls of a caller that sets any of the headers and passes write and end
\* the data alone, with no encoding and no callback.
Next ==
    \/ \E i \in RawInputs : RawSetHeader(i[1], i[2])
    \/ \E mode \in {"function", "class"} : Attach(mode)
    \/ \E i \in SetInputs : SetHeader(i[1], i[2])
    \/ \E data \in Chunks : Write(data, NoEncoding, FALSE)
    \/ \E data \in Chunks \cup {Empty} : End(data, NoEncoding, FALSE)

Spec == Init /\ [][Next]_vars

\* The calls of a caller that sets no header but content-type and may pass an
\* encoding and a callback to write and end.
IsContentType(i) == ToLowerCase(i[1]) = "content-type"

NextCallbacks ==
    \/ \E i \in {j \in RawInputs : IsContentType(j)} : RawSetHeader(i[1], i[2])
    \/ \E mode \in {"function", "class"} : Attach(mode)
    \/ \E i \in {j \in SetInputs : IsContentType(j)} : SetHeader(i[1], i[2])
    \/ \E data \in Chunks, enc \in Encodings, cb \in BOOLEAN : Write(data, enc, cb)
    \/ \E data \in Chunks \cup {Empty}, enc \in Encodings, cb \in BOOLEAN :
          End(data, enc, cb)

SpecCallbacks == Init /\ [][NextCallbacks]_vars

----------------------------------------------------------------------------
(* What the claims speak of *)

\* The bytes handed to the original write and end, in order.
OutBytes == Flatten([i \in 1..Len(downstream) |-> downstream[i].data])

EndCalls == {i \in 1..Len(downstream) : downstream[i].op = "end"}

\* The first opening body tag of a whole body, read from its first byte.
FirstTag(body) == Feed(TokInit, body)
HasBodyTag(body) == FirstTag(body).found

\* body with the payload right after the '>' of its first opening body tag.
WithPayload(body) ==
    LET at == FirstTag(body).endIndex + 1
    IN  Slice(body, 0, at) \o InjectChunk \o Slice(body, at, Len(body))

ContentTypeIsHtml ==
    /\ headers["content-type"].present
    /\ ~headers["content-type"].isArray
    /\ ParseType(headers["content-type"].s) = "text/html"

\* The response was classified Html when its body began and its content-type
\* is text/html.
HtmlResponse == bodyHtml = "html" /\ isHtml /\ ContentTypeIsHtml

\* The response never was classified Html.
NonHtmlResponse == attached /\ ~isHtml /\ ~ContentTypeIsHtml

----------------------------------------------------------------------------
(* C1: for an HTML response whose body holds an opening body tag, however  *)
(* the body is cut into write calls and a final end call, the bytes handed *)
(* to the original write and end are the body with the payload inserted    *)
(* right after the '>' of the first opening body tag.                      *)
C1_BodyWithPayload ==
    (Ended /\ HtmlResponse /\ ~thrown /\ HasBodyTag(sent))
        => OutBytes = WithPayload(sent)


\* The end indexes of all the opening body tags of data, read by a tokenizer
\* in state t.
RECURSIVE TagEndsFrom(_, _)
TagEndsFrom(t, data) ==
    LET r == Feed(t, data)
    IN  IF ~r.found
        THEN {}
        ELSE {r.endIndex}
             \cup TagEndsFrom(r.tok, SubSeq(data, r.endIndex - t.index + 2, Len(data)))

TagEnds(body) == TagEndsFrom(TokInit, body)
LaterTagEnds(body) == TagEnds(body) \ {FirstTag(body).endIndex}

(* C2: the payload is spliced in at most once per response, and every      *)
(* opening body tag after the first one reaches the original write/end     *)
(* whole, at its place after the payload.                                   *)
C2_SpliceOnceLaterTagsKept ==
    /\ injections <= 1
    /\ (Ended /\ injections = 1 /\ HtmlResponse)
          => \A e \in LaterTagEnds(sent) :
                 (e + Len(InjectChunk)) \in TagEnds(OutBytes)


\* The caller gave the header a single value.
Declared(key) == declared[key].present /\ ~declared[key].isArray

\* The caller declared a Content-Length that is a non-negative integer.
DeclaredLengthValid ==
    /\ Declared("content-length")
    /\ NumberOf(declared["content-length"].s).isInteger
    /\ NumberOf(declared["content-length"].s).n >= 0

\* The headers are sent with the first call of the original write or end.
HeadersSent == downstream # <<>>

(* C3: on an HTML response for which the caller declared a non-negative    *)
(* integer Content-Length L, the content-length header sent is             *)
(* L + length(payload), whether the caller set content-type and            *)
(* content-length before or after attaching and in either order.           *)
C3_LengthAdjusted ==
    (HeadersSent /\ HtmlResponse /\ DeclaredLengthValid)
        => headers["content-length"] =
              Scalar(ToString(NumberOf(declared["content-length"].s).n
                              + Len(InjectChunk)))

(* C4: on an HTML response for which the caller set an etag E, the etag    *)
(* sent is E followed once by the digest of the payload, whether E was set *)
(* before or after attaching, before or after content-type, and for both   *)
(* ways of attaching.                                                      *)
C4_EtagSuffixed ==
    (HeadersSent /\ HtmlResponse /\ Declared("etag"))
        => headers["etag"] =
              Scalar(declared["etag"].s \o Md5Base64(InjectChunk))

\* A header the caller gave a value is sent with that value.
SentAsDeclared(key) == declared[key].present => headers[key] = declared[key]

(* C5: on a response that is not HTML the bytes handed to the original     *)
(* write and end are the bytes the caller wrote, and content-length and    *)
(* etag are sent as the caller set them, even when the body holds an       *)
(* opening body tag.                                                       *)
C5_NonHtmlUntouched ==
    (Ended /\ NonHtmlResponse /\ errors = <<>>)
        => /\ OutBytes = sent
           /\ SentAsDeclared("content-length")
           /\ SentAsDeclared("etag")

(* C6: on an HTML response whose body holds no opening body tag the bytes  *)
(* handed to the original write and end are the bytes the caller wrote,    *)
(* and content-length and etag are sent as the caller set them.            *)
C6_NoBodyTagUntouched ==
    (Ended /\ HtmlResponse /\ errors = <<>> /\ ~HasBodyTag(sent))
        => /\ OutBytes = sent
           /\ SentAsDeclared("content-length")
           /\ SentAsDeclared("etag")


\* The calls a caller can make.
WriteArgs == (Chunks \cup {Empty}) \X Encodings \X BOOLEAN

\* Content-Length values that are not a non-negative integer.
InvalidLengths == {"-1"}

(* C7: a content-length that is not a non-negative integer, found on the   *)
(* response at attach time or given to the wrapped setHeader, raises       *)
(* exactly one error event, throws nothing and sets no content-length      *)
(* header; classification, backlog and locator are unchanged.              *)
C7_InvalidLengthRaisesOnce ==
    [][ /\ \A v \in InvalidLengths :
              SetHeader("CONTENT-LENGTH", Scalar(v))
                  => /\ errors' = Append(errors, ContentLengthError(v))
                     /\ ~thrown'
                     /\ headers' = headers
                     /\ UNCHANGED <<isHtml, buffers, len, parserAlive, tok>>
        /\ \A v \in InvalidLengths, mode \in {"function", "class"} :
              (headers["content-length"] = Scalar(v) /\ Attach(mode))
                  => /\ errors' = Append(errors, ContentLengthError(v))
                     /\ ~thrown'
                     /\ headers'["content-length"] = headers["content-length"]
                     /\ UNCHANGED <<buffers, len>>
      ]_vars

(* C7 as amended: the same, where at attach time the response also has a   *)
(* content-type header (main looks at content-length only then); the       *)
(* classification is then the one the content-type header gives.           *)
C7_InvalidLengthRaisesOnceWithType ==
    [][ /\ \A v \in InvalidLengths :
              SetHeader("CONTENT-LENGTH", Scalar(v))
                  => /\ errors' = Append(errors, ContentLengthError(v))
                     /\ ~thrown'
                     /\ headers' = headers
                     /\ UNCHANGED <<isHtml, buffers, len, parserAlive, tok>>
        /\ \A v \in InvalidLengths, mode \in {"function", "class"} :
              (/\ headers["content-length"] = Scalar(v)
               /\ headers["content-type"].present
               /\ Attach(mode))
                  => /\ errors' = Append(errors, ContentLengthError(v))
                     /\ ~thrown'
                     /\ headers'["content-length"] = headers["content-length"]
                     /\ isHtml' = (headers["content-type"] = Scalar("text/html"))
                     /\ UNCHANGED <<buffers, len>>
      ]_vars

\* An invalid content-length was answered with an error event on an attached
\* response whose content-type was there before.
C7_Witness ==
    /\ attached
    /\ errors = <<ContentLengthError("-1")>>
    /\ headers["content-type"].present
    /\ headers["content-length"] = Scalar("-1")

\* Encoding names that are not UTF-8.
NonUtf8Names == {"latin1"}

(* C8: while the response is classified Html, a write (or end) whose       *)
(* encoding argument names an encoding other than UTF-8 raises an error    *)
(* event naming the encoding, throws nothing, and none of its bytes are    *)
(* buffered or handed to the original write or end.                        *)
C8_NonUtf8Rejected ==
    [][ \A a \in WriteArgs :
            (/\ isHtml
             /\ a[2] \in NonUtf8Names
             /\ (Write(a[1], a[2], a[3]) \/ End(a[1], a[2], a[3])))
                => /\ errors' = Append(errors, EncodingError(a[2]))
                   /\ ~thrown'
                   /\ UNCHANGED <<buffers, len, downstream, sent>>
      ]_vars

\* A write was rejected for its encoding while chunks were in the backlog.
C8_Witness ==
    /\ isHtml
    /\ buffers # <<>>
    /\ errors = <<EncodingError("latin1")>>

(* C9: after the caller's writes and its end call, the original end has    *)
(* been called exactly once, as the last call made downstream, and carried *)
(* the whole backlog as one chunk.                                         *)
C9_OneEndWithBacklog ==
    (willEnd /\ errors = <<>>)
        => /\ Cardinality(EndCalls) = 1
           /\ downstream[Len(downstream)].op = "end"
           /\ downstream[Len(downstream)].data = Flatten(buffers)

\* Header names other than content-type, content-length and etag.
OtherNames == {"X-Other"}

(* C10: a setHeader whose value is a list, or whose name is none of        *)
(* content-type, content-length and etag in any spelling, reaches the      *)
(* original setHeader with the same name and value and leaves              *)
(* classification, backlog, pending length and locator as they were.       *)
C10_OtherHeadersForwarded ==
    [][ \A i \in SetInputs :
            ((i[2].isArray \/ i[1] \in OtherNames) /\ SetHeader(i[1], i[2]))
                => /\ headers' = SetHeaderOrig(headers, i[1], i[2])
                   /\ ~thrown'
                   /\ UNCHANGED <<isHtml, buffers, len, parserAlive, tok, errors>>
      ]_vars

\* A list was given for content-length and a header of another name was set.
C10_Witness ==
    /\ headers["content-length"] = List("7,7")
    /\ headers["x-other"] = Scalar("1")

----------------------------------------------------------------------------
\* No call was rejected for its encoding.
NoEncodingErrors ==
    \A i \in 1..Len(errors) : errors[i].code # "ERR_INVALID_HTML_ENCODING"

\* The byte strings left when one occurrence of the payload is taken out of
\* out.
PayloadRemovals(out) ==
    { Slice(out, 0, p) \o Slice(out, p + Len(InjectChunk), Len(out)) :
        p \in { q \in 0..(Len(out) - Len(InjectChunk)) :
                  SubSeq(out, q + 1, q + Len(InjectChunk)) = InjectChunk } }

(* C11: no byte of the caller is lost, doubled or moved: once the caller's *)
(* writes and its end call were accepted, the bytes handed to the original *)
(* write and end, with the payload taken out if it was injected, are the   *)
(* caller's chunks in call order.                                          *)
C11_NoByteLost ==
    (Ended /\ NoEncodingErrors /\ ~thrown)
        => IF injections = 1
           THEN sent \in PayloadRemovals(OutBytes)
           ELSE OutBytes = sent

(* C12: the data given to end() is read as the continuation of the chunks  *)
(* held from earlier writes: when the first opening body tag is completed  *)
(* only by the end() data, the payload goes right after that tag's '>',    *)
(* counted from the first byte of the whole stream.                        *)
C12_EndDataContinuesStream ==
    [][ \A data \in Chunks :
            (/\ parserAlive
             /\ isHtml
             /\ HasBodyTag(Flatten(buffers) \o data)
             /\ End(data, NoEncoding, FALSE))
                => downstream'[Len(downstream')].data
                       = WithPayload(Flatten(buffers) \o data)
      ]_vars

(* C13: in every reachable state the pending length counter is the sum of  *)
(* the lengths of the pending chunks.                                      *)
C13_LenIsBacklogLength == len = Len(Flatten(buffers))

\* Content-Type values whose media type is not text/html.
NonHtmlTypes == {v \in ContentTypes : ParseType(v) # "text/html"}

\* The response's content-type header names a media type other than text/html.
ContentTypeIsOther ==
    /\ headers["content-type"].present
    /\ ~headers["content-type"].isArray
    /\ ParseType(headers["content-type"].s) # "text/html"

(* C14: a wrapped setHeader of content-type with a media type other than   *)
(* text/html, when it returns, leaves the response classified not Html,    *)
(* whatever it was before; an etag set while the content-type header names *)
(* such a type is forwarded without the digest.                            *)
C14_OtherTypeClearsHtml ==
    [][ /\ \A v \in NonHtmlTypes :
              (SetHeader("Content-Type", Scalar(v)) /\ ~thrown') => ~isHtml'
        /\ \A e \in ETags :
              (ContentTypeIsOther /\ SetHeader("ETag", Scalar(e)))
                  => headers'["etag"] = Scalar(e)
      ]_vars

\* The classification the wrapped setHeader gives a content-type value set on
\* a newly attached response (index.js:116-117).
ClassifiedHtmlBySetHeader(v) ==
    ParseType(v) = "text/html"

(* C15: attaching to a response that already has a content-type gives the  *)
(* classification that setting the same value through the wrapped          *)
(* setHeader after attaching gives, for every content-type value,          *)
(* text/html with a charset parameter included.                            *)
C15_AttachCommutesWithContentType ==
    [][ \A v \in ContentTypes, mode \in {"function", "class"} :
            (headers["content-type"] = Scalar(v) /\ Attach(mode))
                => isHtml' = ClassifiedHtmlBySetHeader(v)
      ]_vars

\* Content-Length values that are a non-negative integer.
ValidLengths ==
    {v \in ContentLengths : NumberOf(v).isInteger /\ NumberOf(v).n >= 0}

(* C16: when the wrapped setHeader is given content-length with a          *)
(* non-negative integer v while the response is not classified Html, the   *)
(* response's content-length header is v afterwards.                       *)
C16_LengthForwardedWhenNotHtml ==
    [][ \A v \in ValidLengths :
            (~isHtml /\ SetHeader("CONTENT-LENGTH", Scalar(v)))
                => headers'["content-length"] = Scalar(v)
      ]_vars

(* C17: a wrapped setHeader of content-type with a media type other than   *)
(* text/html is accepted in every reachable state, also after the parser   *)
(* has ended: the header reaches the original setHeader, an ended parser   *)
(* is left alone and nothing is thrown.                                    *)
C17_OtherTypeAlwaysAccepted ==
    [][ \A v \in NonHtmlTypes :
            SetHeader("Content-Type", Scalar(v))
                => /\ ~thrown'
                   /\ headers' = SetHeaderOrig(headers, "Content-Type", Scalar(v))
                   /\ ~parserAlive => UNCHANGED <<parserAlive, tok>>
      ]_vars

(* C18: a write or end call rejected for its encoding does nothing but     *)
(* raise the error: pending chunks, pending length, parser state, the      *)
(* count of injections and the ending flag are after the call what they    *)
(* were before it.                                                         *)
C18_RejectedCallHasNoEffect ==
    [][ \A a \in WriteArgs :
            (/\ EncodingRejected(isHtml, a[2])
             /\ (Write(a[1], a[2], a[3]) \/ End(a[1], a[2], a[3])))
                => UNCHANGED <<buffers, len, parserAlive, tok, injections,
                               willEnd, downstream>>
      ]_vars

\* The calls of the original write and end made by a step that carry a
\* callback.
ForwardedCallbacks ==
    {i \in (Len(downstream) + 1)..Len(downstream') : downstream'[i].cb}

(* C19: the callback given to an accepted write or end call is handled     *)
(* exactly once: either res.write calls it itself, when the chunk is held  *)
(* in the backlog and nothing is handed on, or it is passed to exactly one *)
(* call of the original write or end; a call without a callback causes     *)
(* neither.  No callback is called by res.write after an earlier one was   *)
(* passed to the original write, so callbacks fire in call order.          *)
C19_CallbackHandledOnce ==
    [][ \A a \in WriteArgs :
            (/\ ~EncodingRejected(isHtml, a[2])
             /\ (Write(a[1], a[2], a[3]) \/ End(a[1], a[2], a[3])))
                => /\ SubSeq(downstream', 1, Len(downstream)) = downstream
                   /\ (acked' - acked) + Cardinality(ForwardedCallbacks)
                          = (IF a[3] THEN 1 ELSE 0)
                   /\ acked' > acked
                          => /\ downstream' = downstream
                             /\ buffers' # <<>>
                             /\ \A i \in 1..Len(downstream) : ~downstream[i].cb
      ]_vars

\* A callback was called by res.write, a later one was passed to the original
\* write with the flushed backlog, and the last one to the original end.
C19_Witness ==
    /\ acked = 1
    /\ Len(downstream) = 2
    /\ downstream[1] = WriteOrig(downstream[1].data, TRUE)
    /\ downstream[2] = EndOrig(downstream[2].data, TRUE)
    /\ injections = 1

====
